---- MODULE Spec2Model ----
(***************************************************************************)
(* Model of stable_baselines/gail/dataset/dataset.py: the ExpertDataset    *)
(* facade (trajectory limiting, train/validation partitioning in the      *)
(* independent and in the episode-coherent (LSTM) regime) and the          *)
(* DataLoader minibatch pipeline (sequential and background mode).         *)
(*                                                                         *)
(* Python sequences are TLA+ sequences; Python positions are kept 0-based  *)
(* as values (timestep indices 0..N-1), so s[i] in Python is s[i+1] here.  *)
(* train_fraction is a rational num/den; int(f * x) is (num * x) \div den. *)
(***************************************************************************)
EXTENDS Integers, Sequences, FiniteSets, TLC

\* ------------------------------------------------------------------ bounds
MaxN == 4        \* longest archive (timesteps)
MaxLimit == 2    \* largest positive traj_limitation
MaxBatch == 2    \* largest batch_size
MaxEnvs == 2     \* largest envs_per_batch
FracDen == 4     \* train_fraction ranges over k/FracDen, 0 < k < FracDen
MaxIdx == 3      \* longest index sequence handed to a DataLoader
MaxQueue == 2    \* largest max_queue_len
MaxPulls == 5    \* longest recorded history of results per consumer
MaxStarts == 2   \* most calls of start_process per DataLoader
MaxShuffled == 2 \* longest index sequence a background worker reshuffles

\* ------------------------------------------------------------ Python helpers
Min(a, b) == IF a < b THEN a ELSE b
Max(a, b) == IF a > b THEN a ELSE b

\* s[lo:hi] for 0 <= lo, 0 <= hi (Python clamps hi to len(s))
PySlice(s, lo, hi) == SubSeq(s, lo + 1, Min(hi, Len(s)))

\* s[lo:]
PyFrom(s, lo) == SubSeq(s, lo + 1, Len(s))

\* the set of elements of a sequence
Elems(s) == {s[i] : i \in 1..Len(s)}

\* np.arange(n) as a list
Arange(n) == [i \in 1..n |-> i - 1]

RECURSIVE SeqSum(_)
SeqSum(s) == IF s = <<>> THEN 0 ELSE Head(s) + SeqSum(Tail(s))

RECURSIVE SeqMax(_)
SeqMax(s) == IF Len(s) = 1 THEN s[1] ELSE Max(s[1], SeqMax(Tail(s)))

RECURSIVE SeqMin(_)
SeqMin(s) == IF Len(s) = 1 THEN s[1] ELSE Min(s[1], SeqMin(Tail(s)))

RECURSIVE Flatten(_)
Flatten(ss) == IF ss = <<>> THEN <<>> ELSE Head(ss) \o Flatten(Tail(ss))

\* np.random.permutation(n): every ordering of 0..n-1 is a possible outcome
Permutations0(n) ==
    {p \in [1..n -> 0..(n - 1)] : \A i, j \in 1..n : p[i] = p[j] => i = j}

\* a slip: the shuffle draws its elements with replacement
Shuffles_WithReplacement(s) == [1..Len(s) -> Elems(s)]

\* np.random.shuffle(s): every reordering of s is a possible outcome
Shuffles(s) ==
    {[i \in 1..Len(s) |-> s[p[i] + 1]] : p \in Permutations0(Len(s))}

\* a rounding slip: int() replaced by rounding up
IntFrac_RoundUp(f, x) == (f.num * x + f.den - 1) \div f.den

\* int(train_fraction * x)
IntFrac(f, x) == (f.num * x) \div f.den

\* ------------------------------------------------- trajectory limiting (59-73)
\* the loop of lines 65-68: no break, so every timestep at which the running
\* episode count equals traj_limitation + 1 overwrites traj_limit_idx
RECURSIVE ScanLimit(_, _, _, _, _)
ScanLimit(es, limit, pos, n_episodes, traj_limit_idx) ==
    IF pos > Len(es) THEN traj_limit_idx
    ELSE LET n == n_episodes + (IF es[pos] THEN 1 ELSE 0)
             idx == pos - 1
         IN ScanLimit(es, limit, pos + 1, n,
                      IF n = limit + 1 THEN idx - 1 ELSE traj_limit_idx)

TrajLimitIdx(es, limit) ==
    IF limit > 0 THEN ScanLimit(es, limit, 1, 0, Len(es)) ELSE Len(es)

\* ------------------------------------------------ episode-coherent mode (75-157)
\* start_index_list: the positions of mask that start an episode, then traj_limit_idx
StartIndexList(mask, traj_limit_idx) ==
    LET starts == {i \in 0..(Len(mask) - 1) : mask[i + 1]}
        F[k \in 0..Cardinality(starts)] ==
            IF k = 0 THEN <<>>
            ELSE LET prev == F[k - 1]
                     nxt == CHOOSE i \in starts :
                               /\ i \notin Elems(prev)
                               /\ \A j \in starts \ Elems(prev) : i <= j
                 IN Append(prev, nxt)
    IN Append(F[Cardinality(starts)], traj_limit_idx)

\* split_indices: the indices of each episode
SplitIndices(n_obs, sil) ==
    [i \in 1..(Len(sil) - 1) |-> PySlice(Arange(n_obs), sil[i], sil[i + 1])]

\* np.argsort(len_list).tolist()[::-1]: episode positions (0-based) by
\* non-increasing length; the order among equal lengths is not specified by
\* the default (unstable) sort kind, so every such order is a possible outcome
SortBuffers(len_list) ==
    {p \in Permutations0(Len(len_list)) :
        \A i \in 1..(Len(len_list) - 1) :
            len_list[p[i] + 1] >= len_list[p[i + 1] + 1]}

\* np.argmin: position (0-based) of the first minimum
ArgMin(s) == (CHOOSE i \in 1..Len(s) :
                 /\ \A j \in 1..Len(s) : s[i] <= s[j]
                 /\ \A j \in 1..(i - 1) : s[j] > s[i]) - 1

\* lines 117-126: the envs_per_batch longest episodes open one stack each, every
\* further episode is appended to the currently shortest stack
RECURSIVE AddToSmallest(_, _, _)
AddToSmallest(stack_indices, split_indices, rest) ==
    IF rest = <<>> THEN stack_indices
    ELSE LET lens == [i \in 1..Len(stack_indices) |-> Len(stack_indices[i])]
             pos == ArgMin(lens)
             grown == [stack_indices EXCEPT
                          ![pos + 1] = @ \o split_indices[Head(rest) + 1]]
         IN AddToSmallest(grown, split_indices, Tail(rest))

\* a slip: the episodes that opened the stacks are not popped from sort_buffer
StackIndices_NoPop(split_indices, sort_buffer, W) ==
    AddToSmallest([i \in 1..W |-> split_indices[sort_buffer[i] + 1]],
                  split_indices, sort_buffer)

StackIndices(split_indices, sort_buffer, W) ==
    AddToSmallest([i \in 1..W |-> split_indices[sort_buffer[i] + 1]],
                  split_indices, PyFrom(sort_buffer, W))

\* line 133
FinalStackLen(max_len, bs) == max_len + (bs - (max_len % bs))

\* a slip: the split point is not aligned to whole minibatches
SplitPoint_Unaligned(f, final_stack_len, W, bs) ==
    IntFrac(f, final_stack_len * W)

\* lines 135-136
SplitPoint(f, final_stack_len, W, bs) ==
    LET sp == IntFrac(f, final_stack_len * W)
    IN sp - (sp % (bs * W))

\* line 138
PollutionWarning(mod_max_len, min_len, final_stack_len, W, split_point) ==
    LET d == min_len - (final_stack_len * W - split_point)
    IN mod_max_len > d /\ d > 0

\* line 142: list(islice(cycle(st_i), None, final_stack_len))
Cycle(st, final_stack_len) ==
    [j \in 1..final_stack_len |-> st[((j - 1) % Len(st)) + 1]]

\* lines 143-144: c[pre_cycle_len:] + c[:pre_cycle_len]
Rotate(c, pre_len) == PyFrom(c, pre_len) \o PySlice(c, 0, pre_len)

CycleIndices(stack_indices, final_stack_len) ==
    [i \in 1..Len(stack_indices) |->
        Rotate(Cycle(stack_indices[i], final_stack_len), Len(stack_indices[i]))]

\* a slip: the stacks are concatenated whole instead of block by block
Interleave_StackMajor(cycle_indices, bs) == Flatten(cycle_indices)

\* lines 147-150: batch_size elements of each stack in turn, block after block
Interleave(cycle_indices, bs) ==
    LET final == Len(cycle_indices[1])
        nblocks == (final + bs - 1) \div bs
        W == Len(cycle_indices)
    IN Flatten([k \in 1..(nblocks * W) |->
                  LET blk == (k - 1) \div W
                      s == ((k - 1) % W) + 1
                  IN PySlice(cycle_indices[s], blk * bs, blk * bs + bs)])


\* ------------------------------------------------------------------- state
VARIABLES
    episode_starts,   \* traj_data['episode_starts']
    traj_limitation,  \* constructor argument
    LSTM,             \* constructor argument
    batch_size,       \* constructor argument
    envs_per_batch,   \* constructor argument
    train_fraction,   \* constructor argument, [num, den]
    dataset,          \* the ExpertDataset under construction / constructed
    arrays,           \* the shared arrays: observations, actions, mask
    dl,               \* the DataLoader objects, by name
    queue,            \* each DataLoader's multiprocessing.Queue
    workers,          \* each DataLoader's started _run processes (their own copy
                      \* of the object's indices and their loop position)
    caller,           \* where the consumer stands inside get_next_batch
    delivered         \* history: what each consumer's pulls returned or raised

partitionVars == <<episode_starts, traj_limitation, LSTM, batch_size,
                   envs_per_batch, train_fraction, dataset>>

pipelineVars == <<arrays, dl, queue, workers, caller, delivered>>

vars == <<episode_starts, traj_limitation, LSTM, batch_size,
          envs_per_batch, train_fraction, dataset,
          arrays, dl, queue, workers, caller, delivered>>

\* ------------------------------------------------ ExpertDataset.__init__ (39-202)
\* archives: episode_starts[0] is True (the recorder marks the first timestep)
EpisodeStartsSet ==
    UNION {{es \in [1..n -> BOOLEAN] : es[1]} : n \in 1..MaxN}

NewDataset ==
    [status |-> "new", error |-> "", traj_limit_idx |-> 0, n_obs |-> 0,
     mask |-> <<>>, stack_indices |-> <<>>, max_len |-> 0,
     final_stack_len |-> 0, cycle_indices |-> <<>>,
     split_point |-> 0, warned |-> FALSE, indices |-> <<>>,
     train_indices |-> <<>>, val_indices |-> <<>>,
     use_batch_size |-> 0, num_traj |-> 0]

\* lines 59-73: traj_limit_idx, observations/actions (their length) and mask
Limited(es, limit) ==
    LET tli == TrajLimitIdx(es, limit)
    IN [NewDataset EXCEPT !.traj_limit_idx = tli,
                          !.n_obs = Len(PySlice(Arange(Len(es)), 0, tli)),
                          !.mask = PySlice(es, 0, tli)]

\* lines 169-202: the two assertions, then the fields of the object
Finish(d, es, limit, bs, W) ==
    IF Len(d.train_indices) = 0
    THEN [d EXCEPT !.status = "error", !.error = "No sample for the training set"]
    ELSE IF Len(d.val_indices) = 0
    THEN [d EXCEPT !.status = "error", !.error = "No sample for the validation set"]
    ELSE [d EXCEPT !.status = "built",
                   !.use_batch_size = bs * W,
                   !.num_traj = Min(limit,
                                    SeqSum([i \in 1..Len(es) |->
                                              IF es[i] THEN 1 ELSE 0]))]

\* a slip: the validation slice starts one position late
IndependentSplit_Gap(d, perm, f) ==
    [d EXCEPT !.indices = perm,
              !.train_indices = PySlice(perm, 0, IntFrac(f, Len(perm))),
              !.val_indices = PyFrom(perm, IntFrac(f, Len(perm)) + 1)]

\* lines 161-165
IndependentSplit(d, perm, f) ==
    [d EXCEPT !.indices = perm,
              !.train_indices = PySlice(perm, 0, IntFrac(f, Len(perm))),
              !.val_indices = PyFrom(perm, IntFrac(f, Len(perm)))]

\* lines 128-155
CoherentSplit(d, stack_indices, f, bs, W) ==
    LET pre_cycle_len == [i \in 1..Len(stack_indices) |-> Len(stack_indices[i])]
        max_len == SeqMax(pre_cycle_len)
        min_len == SeqMin(pre_cycle_len)
        mod_max_len == max_len % bs
        final_stack_len == FinalStackLen(max_len, bs)
        split_point == SplitPoint(f, final_stack_len, W, bs)
        cycle_indices == CycleIndices(stack_indices, final_stack_len)
        indices == Interleave(cycle_indices, bs)
    IN [d EXCEPT !.stack_indices = stack_indices,
                 !.max_len = max_len,
                 !.final_stack_len = final_stack_len,
                 !.cycle_indices = cycle_indices,
                 !.split_point = split_point,
                 !.warned = PollutionWarning(mod_max_len, min_len,
                                             final_stack_len, W, split_point),
                 !.indices = indices,
                 !.train_indices = PySlice(indices, 0, split_point),
                 !.val_indices = PyFrom(indices, split_point)]

InitPartition ==
    /\ episode_starts \in EpisodeStartsSet
    /\ traj_limitation \in (-1)..MaxLimit
    /\ LSTM \in BOOLEAN
    /\ batch_size \in 1..MaxBatch
    /\ envs_per_batch \in 1..MaxEnvs
    /\ train_fraction \in {[num |-> k, den |-> FracDen] : k \in 1..(FracDen - 1)}
    /\ dataset = NewDataset
    /\ arrays = [observations |-> <<>>, actions |-> <<>>, mask |-> <<>>]
    /\ dl = <<>>
    /\ queue = <<>>
    /\ workers = <<>>
    /\ caller = <<>>
    /\ delivered = <<>>

\* ExpertDataset(traj_data=..., LSTM=False)
ConstructIndependent ==
    /\ dataset.status = "new"
    /\ ~LSTM
    /\ LET d == Limited(episode_starts, traj_limitation)
       IN \E perm \in Permutations0(d.n_obs) :
             dataset' = Finish(IndependentSplit(d, perm, train_fraction),
                               episode_starts, traj_limitation,
                               batch_size, envs_per_batch)
    /\ UNCHANGED <<episode_starts, traj_limitation, LSTM, batch_size,
                   envs_per_batch, train_fraction>>
    /\ UNCHANGED pipelineVars

\* ExpertDataset(traj_data=..., LSTM=True)
ConstructLSTM ==
    /\ dataset.status = "new"
    /\ LSTM
    /\ LET d == Limited(episode_starts, traj_limitation)
           split_indices == SplitIndices(d.n_obs,
                                         StartIndexList(d.mask, d.traj_limit_idx))
           len_list == [i \in 1..Len(split_indices) |-> Len(split_indices[i])]
       IN IF Len(len_list) < envs_per_batch
          THEN dataset' = [d EXCEPT !.status = "error",
                                    !.error = "Not enough saved episodes"]
          ELSE \E sort_buffer \in SortBuffers(len_list) :
                  dataset' = Finish(
                      CoherentSplit(d, StackIndices(split_indices, sort_buffer,
                                                    envs_per_batch),
                                    train_fraction, batch_size, envs_per_batch),
                      episode_starts, traj_limitation, batch_size, envs_per_batch)
    /\ UNCHANGED <<episode_starts, traj_limitation, LSTM, batch_size,
                   envs_per_batch, train_fraction>>
    /\ UNCHANGED pipelineVars

NextPartition == ConstructIndependent \/ ConstructLSTM

SpecPartition == InitPartition /\ [][NextPartition]_vars


\* ------------------------------------------------------ DataLoader (265-447)
\* line 311: self.load_images = False  #isinstance(observations[0], str)
load_images == FALSE

\* a slip: the partial minibatch is never counted
NMinibatches_Floor(n, bs, partial_minibatch) == n \div bs

\* lines 299-303
NMinibatches(n, bs, partial_minibatch) ==
    (n \div bs) + (IF partial_minibatch /\ n % bs > 0 THEN 1 ELSE 0)

\* DataLoader.__init__ called with start_process=False, as the facade does
NewDataLoader(indices, bs, shuffle, sequential, partial_minibatch, infinite_loop, max_queue_len) ==
    [indices |-> indices,
     original_indices |-> indices,
     n_minibatches |-> NMinibatches(Len(indices), bs, partial_minibatch),
     batch_size |-> bs,
     shuffle |-> shuffle,
     sequential |-> sequential,
     partial_minibatch |-> partial_minibatch,
     infinite_loop |-> infinite_loop,
     max_queue_len |-> max_queue_len,
     process |-> "None",
     start_idx |-> 0]

\* the _run process as start_process creates it: a copy of the object; puts
\* counts the queue.put calls it has completed
NewWorker(d) == [pc |-> "run", indices |-> d.indices, minibatch_idx |-> 0, puts |-> 0]

\* a slip: the queue takes one item more than its bound
QueueFull_OffByOne(q, max_queue_len) == Len(q) > max_queue_len

\* Queue(max_queue_len) (line 309): put blocks while the queue holds
\* max_queue_len items
QueueFull(q, max_queue_len) == Len(q) >= max_queue_len

\* a slip: the worker stops after its first epoch whatever infinite_loop says
AfterEpoch_Stops(infinite_loop) == "done"

\* line 364, while start or self.infinite_loop, evaluated after an epoch
AfterEpoch(infinite_loop) == IF infinite_loop THEN "run" ELSE "done"

\* a slip: the slice starts one position after the scan offset
MinibatchIndices_Shifted(indices, start_idx, bs) ==
    PySlice(indices, start_idx + 1, start_idx + 1 + bs)

\* _minibatch_indices (329-336)
MinibatchIndices(indices, start_idx, bs) ==
    PySlice(indices, start_idx, start_idx + bs)

\* _make_batch_element (397-418): cv2.imread gives None for a file that does
\* not exist, and len(image.shape) (line 409) raises before the check of 412
MakeBatchElement(image_path) ==
    IF image_path = "img_missing" THEN "AttributeError" ELSE "pixels"

Sentinel == [kind |-> "None", obs |-> <<>>, actions |-> <<>>, mask |-> <<>>]

Raised(exc) == [kind |-> exc, obs |-> <<>>, actions |-> <<>>, mask |-> <<>>]

\* lines 350-356 and 374-387: the rows of the three arrays at the given indices
Gather(arr, idxs) ==
    LET raw == [k \in 1..Len(idxs) |-> arr.observations[idxs[k] + 1]]
        obs == IF load_images
               THEN [k \in 1..Len(idxs) |-> MakeBatchElement(raw[k])]
               ELSE raw
    IN IF \E k \in 1..Len(obs) : obs[k] = "AttributeError"
       THEN Raised("AttributeError")
       ELSE [kind |-> "batch",
             obs |-> obs,
             actions |-> [k \in 1..Len(idxs) |-> arr.actions[idxs[k] + 1]],
             mask |-> [k \in 1..Len(idxs) |-> arr.mask[idxs[k] + 1]]]

\* sequential_next (338-359): the possible (object after the call, result) pairs
SequentialNext(d, arr) ==
    IF d.start_idx >= Len(d.indices)
    THEN {[loader |-> d, result |-> Raised("StopIteration")]}
    ELSE {LET res == Gather(arr, MinibatchIndices(idxs, d.start_idx, d.batch_size))
          IN [loader |-> IF res.kind = "batch"
                         THEN [d EXCEPT !.indices = idxs,
                                        !.start_idx = @ + d.batch_size]
                         ELSE [d EXCEPT !.indices = idxs],
              result |-> res]
          : idxs \in IF d.start_idx = 0 /\ d.shuffle
                     THEN Shuffles(d.indices) ELSE {d.indices}}

\* a slip: __iter__ forgets to rewind the scan offset
IterLoader_NoRewind(d) == [d EXCEPT !.indices = d.original_indices]

\* __iter__ (423-426)
IterLoader(d) == [d EXCEPT !.start_idx = 0, !.indices = d.original_indices]

\* DataLoader.start_process (318-327)
StartProcess(id) ==
    /\ IF dl[id].sequential
       THEN UNCHANGED <<dl, workers>>
       ELSE /\ Len(workers[id]) < MaxStarts
            /\ dl' = [dl EXCEPT ![id].process = "alive"]
            /\ workers' = [workers EXCEPT ![id] =
                              Append(@, NewWorker(dl[id]))]
    /\ UNCHANGED <<arrays, queue, caller, delivered>>
    /\ UNCHANGED partitionVars

\* _run (361-395), one pass of the for loop: gather one minibatch and put it on
\* the queue (put blocks while the queue is full); the shuffle of line 368
\* precedes the first minibatch of an epoch
WorkerPutBatch(id, w) ==
    /\ w \in 1..Len(workers[id])
    /\ workers[id][w].pc = "run"
    /\ workers[id][w].minibatch_idx < dl[id].n_minibatches
    /\ ~QueueFull(queue[id], dl[id].max_queue_len)
    /\ \E idxs \in IF workers[id][w].minibatch_idx = 0 /\ dl[id].shuffle
                   THEN Shuffles(workers[id][w].indices)
                   ELSE {workers[id][w].indices} :
          LET res == Gather(arrays,
                            MinibatchIndices(idxs,
                                workers[id][w].minibatch_idx * dl[id].batch_size,
                                dl[id].batch_size))
          IN IF res.kind = "batch"
             THEN /\ queue' = [queue EXCEPT ![id] = Append(@, res)]
                  /\ workers' = [workers EXCEPT ![id][w].indices = idxs,
                                                ![id][w].minibatch_idx = @ + 1,
                                                ![id][w].puts = @ + 1]
             ELSE /\ queue' = queue
                  /\ workers' = [workers EXCEPT ![id][w].indices = idxs,
                                                ![id][w].pc = "crashed"]
    /\ UNCHANGED <<arrays, dl, caller, delivered>>
    /\ UNCHANGED partitionVars

\* _run, line 395: the end-of-epoch sentinel, then the while test of line 364
WorkerPutSentinel(id, w) ==
    /\ w \in 1..Len(workers[id])
    /\ workers[id][w].pc = "run"
    /\ workers[id][w].minibatch_idx = dl[id].n_minibatches
    /\ ~QueueFull(queue[id], dl[id].max_queue_len)
    /\ queue' = [queue EXCEPT ![id] = Append(@, Sentinel)]
    /\ workers' = [workers EXCEPT
                      ![id][w].minibatch_idx = 0,
                      ![id][w].puts = @ + 1,
                      ![id][w].pc = AfterEpoch(dl[id].infinite_loop)]
    /\ UNCHANGED <<arrays, dl, caller, delivered>>
    /\ UNCHANGED partitionVars

\* DataLoader.__next__ (428-443) in sequential mode
NextSequential(id) ==
    /\ dl[id].sequential
    /\ Len(delivered[id]) < MaxPulls
    /\ \E r \in SequentialNext(dl[id], arrays) :
          /\ dl' = [dl EXCEPT ![id] = r.loader]
          /\ delivered' = [delivered EXCEPT ![id] = Append(@, r.result)]
    /\ UNCHANGED <<arrays, queue, workers, caller>>
    /\ UNCHANGED partitionVars

\* DataLoader.__next__ (428-443) in background mode: ValueError before
\* start_process, else poll the queue until it holds a value
NextBackground(id) ==
    /\ ~dl[id].sequential
    /\ Len(delivered[id]) < MaxPulls
    /\ IF dl[id].process = "None"
       THEN /\ delivered' = [delivered EXCEPT ![id] = Append(@, Raised("ValueError"))]
            /\ UNCHANGED queue
       ELSE /\ queue[id] # <<>>
            /\ queue' = [queue EXCEPT ![id] = Tail(@)]
            /\ delivered' = [delivered EXCEPT ![id] =
                                Append(@, IF Head(queue[id]).kind = "None"
                                          THEN Raised("StopIteration")
                                          ELSE Head(queue[id]))]
    /\ UNCHANGED <<arrays, dl, workers, caller>>
    /\ UNCHANGED partitionVars

\* DataLoader.__next__ (428-433) in background mode, as far as the polling
\* loop: the call is made and has not returned yet
NextEnter(id) ==
    /\ ~dl[id].sequential
    /\ dl[id].process # "None"
    /\ caller[id] = "idle"
    /\ Len(delivered[id]) < MaxPulls
    /\ caller' = [caller EXCEPT ![id] = "next"]
    /\ UNCHANGED <<arrays, dl, queue, workers, delivered>>
    /\ UNCHANGED partitionVars

\* DataLoader.__next__ (434-443): a get_nowait of the polling loop finds a
\* value and the call returns it, or raises StopIteration for the sentinel
NextPoll(id) ==
    /\ caller[id] = "next"
    /\ queue[id] # <<>>
    /\ queue' = [queue EXCEPT ![id] = Tail(@)]
    /\ delivered' = [delivered EXCEPT ![id] =
                        Append(@, IF Head(queue[id]).kind = "None"
                                  THEN Raised("StopIteration")
                                  ELSE Head(queue[id]))]
    /\ caller' = [caller EXCEPT ![id] = "idle"]
    /\ UNCHANGED <<arrays, dl, workers>>
    /\ UNCHANGED partitionVars

\* DataLoader.__iter__ (423-426); in sequential mode it restarts the scan, and
\* the recorded history restarts with it
Iter(id) ==
    /\ dl' = [dl EXCEPT ![id] = IterLoader(@)]
    /\ delivered' = [delivered EXCEPT ![id] = IF dl[id].sequential THEN <<>> ELSE @]
    /\ UNCHANGED <<arrays, queue, workers, caller>>
    /\ UNCHANGED partitionVars

\* ----------------------------------------- ExpertDataset.get_next_batch (233-252)
\* sequential pipeline: the whole call
GetNextBatchSequential(id) ==
    /\ dl[id].sequential
    /\ Len(delivered[id]) < MaxPulls
    /\ \E r \in SequentialNext(dl[id], arrays) :
          IF r.result.kind = "StopIteration"
          THEN \E r2 \in SequentialNext(IterLoader(r.loader), arrays) :
                  /\ dl' = [dl EXCEPT ![id] = r2.loader]
                  /\ delivered' = [delivered EXCEPT ![id] = Append(@, r2.result)]
          ELSE /\ dl' = [dl EXCEPT ![id] = r.loader]
               /\ delivered' = [delivered EXCEPT ![id] = Append(@, r.result)]
    /\ UNCHANGED <<arrays, queue, workers, caller>>
    /\ UNCHANGED partitionVars

\* background pipeline, lines 246-247: the lazy start on the first pull
GetNextBatchStart(id) ==
    /\ ~dl[id].sequential
    /\ caller[id] = "idle"
    /\ dl[id].process = "None"
    /\ Len(delivered[id]) < MaxPulls
    /\ dl' = [dl EXCEPT ![id].process = "alive"]
    /\ workers' = [workers EXCEPT ![id] =
                      Append(@, NewWorker(dl[id]))]
    /\ caller' = [caller EXCEPT ![id] = "next"]
    /\ UNCHANGED <<arrays, queue, delivered>>
    /\ UNCHANGED partitionVars

\* background pipeline, lines 248-251: next(dataloader) receives a value; a
\* minibatch is returned, the sentinel leads to iter(dataloader) and a second next
GetNextBatchReceive(id) ==
    /\ ~dl[id].sequential
    /\ \/ caller[id] = "next"
       \/ caller[id] = "idle" /\ dl[id].process # "None"
    /\ Len(delivered[id]) < MaxPulls
    /\ queue[id] # <<>>
    /\ queue' = [queue EXCEPT ![id] = Tail(@)]
    /\ IF Head(queue[id]).kind = "None"
       THEN /\ dl' = [dl EXCEPT ![id] = IterLoader(@)]
            /\ caller' = [caller EXCEPT ![id] = "retry"]
            /\ UNCHANGED delivered
       ELSE /\ delivered' = [delivered EXCEPT ![id] = Append(@, Head(queue[id]))]
            /\ caller' = [caller EXCEPT ![id] = "idle"]
            /\ UNCHANGED dl
    /\ UNCHANGED <<arrays, workers>>
    /\ UNCHANGED partitionVars

\* background pipeline, line 252: the second next(dataloader); a StopIteration
\* raised here leaves get_next_batch
GetNextBatchRetry(id) ==
    /\ ~dl[id].sequential
    /\ caller[id] = "retry"
    /\ queue[id] # <<>>
    /\ queue' = [queue EXCEPT ![id] = Tail(@)]
    /\ delivered' = [delivered EXCEPT ![id] =
                        Append(@, IF Head(queue[id]).kind = "None"
                                  THEN Raised("StopIteration")
                                  ELSE Head(queue[id]))]
    /\ caller' = [caller EXCEPT ![id] = "idle"]
    /\ UNCHANGED <<arrays, dl, workers>>
    /\ UNCHANGED partitionVars

\* ------------------------------------------------------ pipeline specifications
\* a numeric observations array
NumericArray(n) == [i \in 1..n |-> "vec"]

\* an observations array is numeric, or holds image paths one of which names a
\* file that does not exist
ObservationArrays(n) ==
    {NumericArray(n)}
        \cup {[i \in 1..n |-> IF i = m THEN "img_missing" ELSE "img_ok"] : m \in 1..n}

\* the indices 0..n-1 in descending order
Reversed(n) == [i \in 1..n |-> n - i]

\* the arrays of an archive of n timesteps; actions[i] = i identifies the row
Arrays(obs) ==
    [observations |-> obs,
     actions |-> Arange(Len(obs)),
     mask |-> [i \in 1..Len(obs) |-> i = 1]]

\* the part of the state the pipeline specifications leave alone
NoDataset ==
    /\ episode_starts = <<TRUE>>
    /\ traj_limitation = -1
    /\ envs_per_batch = 1
    /\ train_fraction = [num |-> 1, den |-> FracDen]
    /\ dataset = NewDataset

\* one sequential DataLoader, used directly
InitSequential ==
    /\ NoDataset
    /\ LSTM = FALSE
    /\ \E n \in 1..MaxIdx :
          /\ \E obs \in ObservationArrays(n) : arrays = Arrays(obs)
          /\ batch_size \in 1..MaxBatch
          /\ \E indices \in Permutations0(n),
                shuffle \in BOOLEAN, partial_minibatch \in BOOLEAN :
                dl = [id \in {"dl"} |->
                        NewDataLoader(indices, batch_size, shuffle, TRUE,
                                      partial_minibatch, TRUE, 1)]
    /\ queue = [id \in {"dl"} |-> <<>>]
    /\ workers = [id \in {"dl"} |-> <<>>]
    /\ caller = [id \in {"dl"} |-> "idle"]
    /\ delivered = [id \in {"dl"} |-> <<>>]

NextSequentialLoader ==
    \/ \E id \in DOMAIN dl : StartProcess(id)
    \/ \E id \in DOMAIN dl : NextSequential(id)
    \/ \E id \in DOMAIN dl : Iter(id)

SpecSequential == InitSequential /\ [][NextSequentialLoader]_vars

\* two DataLoaders over the same arrays, built from identical arguments but for
\* the execution mode ("seq" sequential, "bg" background process), shuffle
\* disabled, start_process left at its default True (lines 315-316)
InitEquivalence ==
    /\ NoDataset
    /\ LSTM = FALSE
    /\ \E n \in 1..MaxIdx :
          /\ arrays = Arrays(NumericArray(n))
          /\ batch_size \in 1..MaxBatch
          /\ \E indices \in Permutations0(n), partial_minibatch \in BOOLEAN,
                infinite_loop \in BOOLEAN, max_queue_len \in 1..MaxQueue :
                /\ dl = [id \in {"seq", "bg"} |->
                           [NewDataLoader(indices, batch_size, FALSE, id = "seq",
                                          partial_minibatch, infinite_loop,
                                          max_queue_len)
                               EXCEPT !.process = IF id = "seq" THEN "None"
                                                  ELSE "alive"]]
                /\ workers = [id \in {"seq", "bg"} |->
                                IF id = "seq" THEN <<>>
                                ELSE <<NewWorker(dl[id])>>]
    /\ queue = [id \in {"seq", "bg"} |-> <<>>]
    /\ caller = [id \in {"seq", "bg"} |-> "idle"]
    /\ delivered = [id \in {"seq", "bg"} |-> <<>>]

NextEquivalence ==
    \/ \E id \in DOMAIN dl : NextSequential(id)
    \/ \E id \in DOMAIN dl : NextBackground(id)
    \/ \E id \in DOMAIN dl : \E w \in 1..Len(workers[id]) : WorkerPutBatch(id, w)
    \/ \E id \in DOMAIN dl : \E w \in 1..Len(workers[id]) : WorkerPutSentinel(id, w)

SpecEquivalence == InitEquivalence /\ [][NextEquivalence]_vars

\* one pipeline as ExpertDataset builds it (lines 191-196): start_process=False,
\* shuffle=self.randomize (False under LSTM), partial_minibatch=not LSTM,
\* sequential=sequential_preprocessing, the defaults infinite_loop=True and
\* max_queue_len=1; the consumer pulls only through get_next_batch; the index
\* sequence is ascending or descending, which tells scan order from index order
InitFacade ==
    /\ NoDataset
    /\ LSTM \in BOOLEAN
    /\ \E n \in 1..MaxIdx :
          /\ arrays = Arrays(NumericArray(n))
          /\ batch_size \in 1..MaxBatch
          /\ \E indices \in {Arange(n), Reversed(n)}, randomize \in BOOLEAN,
                sequential_preprocessing \in BOOLEAN :
                dl = [id \in {"train"} |->
                        NewDataLoader(indices, batch_size,
                                      IF LSTM THEN FALSE ELSE randomize,
                                      sequential_preprocessing, ~LSTM, TRUE, 1)]
    /\ queue = [id \in {"train"} |-> <<>>]
    /\ workers = [id \in {"train"} |-> <<>>]
    /\ caller = [id \in {"train"} |-> "idle"]
    /\ delivered = [id \in {"train"} |-> <<>>]

NextFacade ==
    \/ \E id \in DOMAIN dl : GetNextBatchSequential(id)
    \/ \E id \in DOMAIN dl : GetNextBatchStart(id)
    \/ \E id \in DOMAIN dl : GetNextBatchReceive(id)
    \/ \E id \in DOMAIN dl : GetNextBatchRetry(id)
    \/ \E id \in DOMAIN dl : \E w \in 1..Len(workers[id]) : WorkerPutBatch(id, w)
    \/ \E id \in DOMAIN dl : \E w \in 1..Len(workers[id]) : WorkerPutSentinel(id, w)

SpecFacade == InitFacade /\ [][NextFacade]_vars

\* one background DataLoader used directly, start_process left at its default
\* True (lines 315-316), so that one worker feeds the queue from construction
InitBackground ==
    /\ NoDataset
    /\ LSTM = FALSE
    /\ \E n \in 1..MaxIdx :
          /\ arrays = Arrays(NumericArray(n))
          /\ batch_size \in 1..MaxBatch
          /\ \E indices \in {Arange(n), Reversed(n)},
                shuffle \in IF n <= MaxShuffled THEN BOOLEAN ELSE {FALSE},
                partial_minibatch \in BOOLEAN, infinite_loop \in BOOLEAN,
                max_queue_len \in 1..MaxQueue :
                /\ dl = [id \in {"bg"} |->
                           [NewDataLoader(indices, batch_size, shuffle, FALSE,
                                          partial_minibatch, infinite_loop,
                                          max_queue_len)
                               EXCEPT !.process = "alive"]]
                /\ workers = [id \in {"bg"} |-> <<NewWorker(dl[id])>>]
    /\ queue = [id \in {"bg"} |-> <<>>]
    /\ caller = [id \in {"bg"} |-> "idle"]
    /\ delivered = [id \in {"bg"} |-> <<>>]

NextBackgroundLoader ==
    \/ \E id \in DOMAIN dl : NextBackground(id)
    \/ \E id \in DOMAIN dl : \E w \in 1..Len(workers[id]) : WorkerPutBatch(id, w)
    \/ \E id \in DOMAIN dl : \E w \in 1..Len(workers[id]) : WorkerPutSentinel(id, w)

SpecBackground == InitBackground /\ [][NextBackgroundLoader]_vars

\* one started background DataLoader whose consumer enters and leaves __next__;
\* the worker process is scheduled (weak fairness of its steps) and so is the
\* polling loop of a pull that is under way
InitLive ==
    /\ NoDataset
    /\ LSTM = FALSE
    /\ \E n \in 1..MaxIdx :
          /\ arrays = Arrays(NumericArray(n))
          /\ batch_size \in 1..MaxBatch
          /\ \E partial_minibatch \in BOOLEAN, infinite_loop \in BOOLEAN,
                max_queue_len \in 1..MaxQueue :
                /\ dl = [id \in {"bg"} |->
                           [NewDataLoader(Arange(n), batch_size, FALSE, FALSE,
                                          partial_minibatch, infinite_loop,
                                          max_queue_len)
                               EXCEPT !.process = "alive"]]
                /\ workers = [id \in {"bg"} |-> <<NewWorker(dl[id])>>]
    /\ queue = [id \in {"bg"} |-> <<>>]
    /\ caller = [id \in {"bg"} |-> "idle"]
    /\ delivered = [id \in {"bg"} |-> <<>>]

WorkerStep(id) ==
    \E w \in 1..Len(workers[id]) : WorkerPutBatch(id, w) \/ WorkerPutSentinel(id, w)

NextLive ==
    \/ \E id \in DOMAIN dl : NextEnter(id)
    \/ \E id \in DOMAIN dl : NextPoll(id)
    \/ \E id \in DOMAIN dl : \E w \in 1..Len(workers[id]) : WorkerPutBatch(id, w)
    \/ \E id \in DOMAIN dl : \E w \in 1..Len(workers[id]) : WorkerPutSentinel(id, w)

SpecLive ==
    /\ InitLive
    /\ [][NextLive]_vars
    /\ WF_vars(WorkerStep("bg"))
    /\ WF_vars(NextPoll("bg"))

\* the train and validation pipelines of an ExpertDataset built in independent
\* mode with randomize=True and sequential_preprocessing=True (lines 161-167,
\* 191-196) over an archive of one episode; the two index arrays are disjoint
\* slices of one permutation, so an in-place shuffle of one pipeline's array
\* stays inside its slice; the consumer drives each pipeline by next() and
\* iter(), the two calls get_next_batch is made of
InitShuffle ==
    /\ traj_limitation = -1
    /\ LSTM = FALSE
    /\ envs_per_batch = 1
    /\ batch_size \in 1..MaxBatch
    /\ train_fraction \in {[num |-> k, den |-> FracDen] : k \in 1..(FracDen - 1)}
    /\ \E n \in 2..MaxN :
          /\ episode_starts = [i \in 1..n |-> i = 1]
          /\ arrays = Arrays(NumericArray(n))
          /\ \E perm \in {Arange(n), Reversed(n)} :
                dataset = Finish(IndependentSplit(Limited(episode_starts, traj_limitation),
                                                  perm, train_fraction),
                                 episode_starts, traj_limitation,
                                 batch_size, envs_per_batch)
    /\ dataset.status = "built"
    /\ dl = [id \in {"train", "val"} |->
               NewDataLoader(IF id = "train" THEN dataset.train_indices
                             ELSE dataset.val_indices,
                             dataset.use_batch_size, TRUE, TRUE, ~LSTM, TRUE, 1)]
    /\ queue = [id \in {"train", "val"} |-> <<>>]
    /\ workers = [id \in {"train", "val"} |-> <<>>]
    /\ caller = [id \in {"train", "val"} |-> "idle"]
    /\ delivered = [id \in {"train", "val"} |-> <<>>]

NextShuffle ==
    \/ \E id \in DOMAIN dl : NextSequential(id)
    \/ \E id \in DOMAIN dl : Iter(id)

SpecShuffle == InitShuffle /\ [][NextShuffle]_vars

\* one DataLoader built with start_process=False, on which start_process, the
\* pulls of the iterator protocol and the pulls of get_next_batch (with its
\* lazy start) are called in any order
InitStart ==
    /\ NoDataset
    /\ LSTM = FALSE
    /\ \E n \in 1..MaxIdx :
          /\ arrays = Arrays(NumericArray(n))
          /\ batch_size \in 1..MaxBatch
          /\ \E sequential \in BOOLEAN, infinite_loop \in BOOLEAN,
                max_queue_len \in 1..MaxQueue :
                dl = [id \in {"dl"} |->
                        NewDataLoader(Arange(n), batch_size, FALSE, sequential,
                                      TRUE, infinite_loop, max_queue_len)]
    /\ queue = [id \in {"dl"} |-> <<>>]
    /\ workers = [id \in {"dl"} |-> <<>>]
    /\ caller = [id \in {"dl"} |-> "idle"]
    /\ delivered = [id \in {"dl"} |-> <<>>]

NextStart ==
    \/ \E id \in DOMAIN dl : StartProcess(id)
    \/ \E id \in DOMAIN dl : NextSequential(id)
    \/ \E id \in DOMAIN dl : NextBackground(id)
    \/ \E id \in DOMAIN dl : GetNextBatchStart(id)
    \/ \E id \in DOMAIN dl : GetNextBatchReceive(id)
    \/ \E id \in DOMAIN dl : GetNextBatchRetry(id)
    \/ \E id \in DOMAIN dl : \E w \in 1..Len(workers[id]) : WorkerPutBatch(id, w)
    \/ \E id \in DOMAIN dl : \E w \in 1..Len(workers[id]) : WorkerPutSentinel(id, w)

SpecStart == InitStart /\ [][NextStart]_vars

\* ------------------------------------------------------- claims: partitioning
NoDuplicates(s) == \A i, j \in 1..Len(s) : s[i] = s[j] => i = j

\* C1: in independent mode train_indices and val_indices are disjoint, their
\* union is exactly 0..N-1 and their lengths add up to N, N the usable count.
C1_IndependentPartition ==
    (~LSTM /\ dataset.status # "new") =>
        /\ Elems(dataset.train_indices) \cap Elems(dataset.val_indices) = {}
        /\ Elems(dataset.train_indices) \cup Elems(dataset.val_indices)
              = 0..(dataset.n_obs - 1)
        /\ Len(dataset.train_indices) + Len(dataset.val_indices) = dataset.n_obs

C1_Witness ==
    /\ ~LSTM
    /\ dataset.status = "built"
    /\ Len(dataset.train_indices) >= 2
    /\ Len(dataset.val_indices) >= 2
    /\ dataset.indices # Arange(dataset.n_obs)

\* C2 as stated: in independent mode every N >= 2 and every f in (0,1) gives a
\* successful construction with both partitions non-empty.
C2_AlwaysBuiltFromTwo ==
    (~LSTM /\ dataset.status # "new" /\ dataset.n_obs >= 2) =>
        /\ dataset.status = "built"
        /\ dataset.train_indices # <<>>
        /\ dataset.val_indices # <<>>

\* C2 amended: in independent mode construction succeeds exactly when
\* f * N >= 1; otherwise the training-set assertion fires; val_indices is
\* non-empty for every N >= 1 and the validation-set assertion never fires.
C2_BuiltIffTrainSample ==
    (~LSTM /\ dataset.status # "new") =>
        /\ dataset.status = "built"
              <=> train_fraction.num * dataset.n_obs >= train_fraction.den
        /\ dataset.status = "built" =>
              dataset.train_indices # <<>> /\ dataset.val_indices # <<>>
        /\ dataset.status = "error" =>
              dataset.error = "No sample for the training set"
        /\ dataset.n_obs >= 1 => dataset.val_indices # <<>>

C2_Witness ==
    /\ ~LSTM
    /\ dataset.status = "error"
    /\ dataset.n_obs >= 2
    /\ dataset.val_indices # <<>>

\* the number of episodes of an archive
EpisodeCount(es) == Cardinality({i \in 1..Len(es) : es[i]})

\* the timestep (0-based) at which the k-th episode begins
EpisodeBegin(es, k) ==
    CHOOSE i \in 0..(Len(es) - 1) :
        es[i + 1] /\ Cardinality({j \in 1..(i + 1) : es[j]}) = k

\* C3: with a positive limit L and more than L episodes the usable range ends
\* just before episode L+1 begins (all of the first L episodes, nothing later);
\* with L <= 0 or at most L episodes every timestep is usable.
C3_UsableRange ==
    dataset.status # "new" =>
        dataset.n_obs =
            IF traj_limitation > 0 /\ EpisodeCount(episode_starts) > traj_limitation
            THEN EpisodeBegin(episode_starts, traj_limitation + 1)
            ELSE Len(episode_starts)

\* the episode (1-based) a timestep belongs to, from the mask
EpisodeOf(mask, i) == Cardinality({k \in 0..i : mask[k + 1]})

\* the stack (1-based) that holds index i; 0 when none does
StackOf(stacks, i) ==
    IF \E s \in 1..Len(stacks) : i \in Elems(stacks[s])
    THEN CHOOSE s \in 1..Len(stacks) : i \in Elems(stacks[s])
    ELSE 0

\* C8: after the greedy assignment every episode lies contiguously and in its
\* original order within exactly one stack; no index is in two stacks, none
\* is missing.
C8_EpisodesWholeInOneStack ==
    (LSTM /\ dataset.stack_indices # <<>>) =>
        LET st == dataset.stack_indices
            mask == dataset.mask
            n == dataset.n_obs
        IN /\ Len(st) = envs_per_batch
           /\ NoDuplicates(Flatten(st))
           /\ Elems(Flatten(st)) = 0..(n - 1)
           /\ \A a, b \in 0..(n - 1) :
                 EpisodeOf(mask, a) = EpisodeOf(mask, b)
                    => StackOf(st, a) = StackOf(st, b)
           /\ \A s \in 1..Len(st) :
                 /\ mask[st[s][1] + 1]
                 /\ \A j \in 1..(Len(st[s]) - 1) :
                       IF EpisodeOf(mask, st[s][j]) = EpisodeOf(mask, st[s][j + 1])
                       THEN st[s][j + 1] = st[s][j] + 1
                       ELSE /\ mask[st[s][j + 1] + 1]
                            /\ (st[s][j] + 1 = n \/ mask[st[s][j] + 2])

C8_Witness ==
    /\ LSTM
    /\ dataset.status = "built"
    /\ envs_per_batch = 2
    /\ EpisodeCount(dataset.mask) >= 3
    /\ \E s \in 1..2 :
          Cardinality({i \in Elems(dataset.stack_indices[s]) : dataset.mask[i + 1]}) >= 2

\* C9: in episode-coherent mode no timestep index occurs both in train_indices
\* and in val_indices, whenever construction succeeds.
C9_CoherentDisjoint ==
    (LSTM /\ dataset.status = "built") =>
        Elems(dataset.train_indices) \cap Elems(dataset.val_indices) = {}


\* ----------------------------------------------------------- claims: pipeline
CeilDiv(n, b) == (n + b - 1) \div b

\* the actions rows of the results h[from..to], concatenated
Concat(h, from, to) == Flatten([j \in 1..(to - from + 1) |-> h[from + j - 1].actions])

\* C4: a sequential, non-shuffled pipeline with partial batches retained
\* returns, in its first ceil(n/b) pulls, minibatches whose concatenation is the
\* input index sequence; the last of them is short iff n mod b # 0.
C4_SequentialEpoch ==
    \A id \in DOMAIN dl :
        LET d == dl[id]
            h == delivered[id]
            n == Len(d.original_indices)
            b == d.batch_size
            m == CeilDiv(n, b)
            k == Min(Len(h), m)
        IN (d.sequential /\ ~d.shuffle /\ d.partial_minibatch) =>
              /\ \A j \in 1..k : h[j].kind = "batch"
              /\ Concat(h, 1, k) = PySlice(d.original_indices, 0, k * b)
              /\ Len(h) >= m =>
                    /\ Concat(h, 1, m) = d.original_indices
                    /\ Len(h[m].actions) < b <=> n % b # 0

C4_Witness ==
    \E id \in DOMAIN dl :
        /\ dl[id].sequential /\ ~dl[id].shuffle /\ dl[id].partial_minibatch
        /\ Len(dl[id].original_indices) = 3
        /\ dl[id].batch_size = 2
        /\ dl[id].original_indices # Arange(3)
        /\ Len(delivered[id]) = 2
        /\ Len(delivered[id][2].actions) = 1

\* C5: with partial minibatches disabled every minibatch has exactly b
\* elements and an epoch has exactly floor(n/b) of them before end-of-epoch.
C5_OnlyFullBatches ==
    \A id \in DOMAIN dl :
        LET d == dl[id]
            h == delivered[id]
            n == Len(d.original_indices)
            b == d.batch_size
        IN ~d.partial_minibatch =>
              /\ \A j \in 1..Len(h) :
                    h[j].kind = "batch" => Len(h[j].actions) = b
              /\ \A j \in 1..Len(h) :
                    (/\ h[j].kind = "StopIteration"
                     /\ \A i \in 1..(j - 1) : h[i].kind = "batch")
                        => j - 1 = n \div b

\* the results up to and including the first end-of-epoch signal
UpToFirstStop(h) ==
    IF \E j \in 1..Len(h) : h[j].kind = "StopIteration"
    THEN SubSeq(h, 1, CHOOSE j \in 1..Len(h) :
                         /\ h[j].kind = "StopIteration"
                         /\ \A i \in 1..(j - 1) : h[i].kind # "StopIteration")
    ELSE h

\* C6: the background and the sequential pipeline built from identical inputs
\* deliver the same results up to and including the first end-of-epoch signal.
C6_SameSequence ==
    LET a == UpToFirstStop(delivered["seq"])
        b == UpToFirstStop(delivered["bg"])
        k == Min(Len(a), Len(b))
    IN SubSeq(a, 1, k) = SubSeq(b, 1, k)

\* the size of the j-th minibatch a consumer receives when epochs follow each
\* other without a gap
ExpectedSize(n, b, j) ==
    IF ((j - 1) % CeilDiv(n, b)) < n \div b THEN b ELSE n % b

\* C7: with partial minibatches retained get_next_batch always returns a
\* minibatch, never the end-of-epoch signal; the sizes repeat per epoch
\* (floor(n/b) of size b, then one of size n mod b if that is not 0), the
\* minibatches of one epoch hold every index once, and the call after an
\* exhausted epoch returns the first minibatch of the next one.
C7_FacadeCyclesEpochs ==
    \A id \in DOMAIN dl :
        LET d == dl[id]
            h == delivered[id]
            n == Len(d.original_indices)
            b == d.batch_size
            m == CeilDiv(n, b)
        IN d.partial_minibatch =>
              /\ \A j \in 1..Len(h) :
                    /\ h[j].kind = "batch"
                    /\ Len(h[j].actions) = ExpectedSize(n, b, j)
                    /\ Len(h[j].obs) = Len(h[j].actions)
                    /\ Len(h[j].mask) = Len(h[j].actions)
                    /\ ~d.shuffle =>
                          h[j].actions = PySlice(d.original_indices,
                                                 ((j - 1) % m) * b,
                                                 ((j - 1) % m) * b + b)
              /\ \A e \in 0..(Len(h) \div m) :
                    LET last == Min((e + 1) * m, Len(h))
                        epoch == Concat(h, e * m + 1, last)
                    IN /\ NoDuplicates(epoch)
                       /\ Elems(epoch) \subseteq Elems(d.original_indices)
                       /\ last = (e + 1) * m
                             => Elems(epoch) = Elems(d.original_indices)

C7_Witness ==
    \E id \in DOMAIN dl :
        /\ ~dl[id].sequential /\ dl[id].partial_minibatch /\ dl[id].shuffle
        /\ caller[id] = "idle"
        /\ Len(dl[id].original_indices) = 3
        /\ dl[id].batch_size = 2
        /\ Len(delivered[id]) = 3
        /\ Len(delivered[id][3].actions) = 2

\* C10: a minibatch is never returned with an image reference to a missing
\* file left undecoded in it (the pull ends in a fatal error instead).
C10_MissingImageIsFatal ==
    \A id \in DOMAIN dl :
        \A j \in 1..Len(delivered[id]) :
            delivered[id][j].kind = "batch" =>
                \A k \in 1..Len(delivered[id][j].obs) :
                    delivered[id][j].obs[k] # "img_missing"


\* ------------------------------------------- claims: statistics, tiling, split
\* C13: num_traj is the number of episodes capped at the limit: min(L, episodes)
\* for a positive limit L, all episodes for the limit -1; never negative.
C13_NumTrajCapped ==
    (dataset.status = "built" /\ traj_limitation # 0) =>
        /\ dataset.num_traj >= 0
        /\ dataset.num_traj =
              IF traj_limitation > 0
              THEN Min(traj_limitation, EpisodeCount(episode_starts))
              ELSE EpisodeCount(episode_starts)

\* for each position of a tiled and rotated stack, whether it is wrap-around
\* padding (a position of the tiling beyond the stack's own content)
PaddingFlags(st, final_stack_len) ==
    Rotate([j \in 1..final_stack_len |-> j > Len(st)], Len(st))

\* C14: after tiling and rotating, the first batch_size positions of every
\* stack are not all padding.
C14_FirstBatchNotAllPadding ==
    (LSTM /\ dataset.status = "built") =>
        \A s \in 1..Len(dataset.stack_indices) :
            \E j \in 1..batch_size :
                ~PaddingFlags(dataset.stack_indices[s], dataset.final_stack_len)[j]

\* C15: final_len is the smallest multiple of batch_size that is >= max_len.
C15_FinalLenRoundsUp ==
    (LSTM /\ dataset.status = "built") =>
        /\ dataset.final_stack_len % batch_size = 0
        /\ dataset.final_stack_len >= dataset.max_len
        /\ dataset.final_stack_len - dataset.max_len < batch_size

\* the m-th minibatch (0-based) a pipeline over idxs cuts with the facade's
\* use_batch_size
FacadeMinibatch(idxs, m) ==
    MinibatchIndices(idxs, m * (batch_size * envs_per_batch),
                     batch_size * envs_per_batch)

\* C16: indices[(k*W + s)*batch_size + j] = stack_s[k*batch_size + j]; every
\* minibatch of the train and of the validation pipeline is W segments, the
\* s-th being the next batch_size elements of stack s.
C16_Interleaved ==
    (LSTM /\ dataset.cycle_indices # <<>>) =>
        LET W == envs_per_batch
            b == batch_size
            c == dataset.cycle_indices
            first_val == dataset.split_point \div (b * W)
        IN /\ \A k \in 0..((dataset.final_stack_len \div b) - 1) :
                 \A s \in 0..(W - 1) : \A j \in 0..(b - 1) :
                    dataset.indices[(k * W + s) * b + j + 1] = c[s + 1][k * b + j + 1]
           /\ \A m \in 0..(NMinibatches(Len(dataset.train_indices), b * W, FALSE) - 1) :
                 \A s \in 0..(W - 1) :
                    PySlice(FacadeMinibatch(dataset.train_indices, m), s * b, s * b + b)
                       = PySlice(c[s + 1], m * b, m * b + b)
           /\ \A m \in 0..(NMinibatches(Len(dataset.val_indices), b * W, FALSE) - 1) :
                 \A s \in 0..(W - 1) :
                    PySlice(FacadeMinibatch(dataset.val_indices, m), s * b, s * b + b)
                       = PySlice(c[s + 1], (first_val + m) * b, (first_val + m) * b + b)

C16_Witness ==
    /\ LSTM
    /\ dataset.status = "built"
    /\ envs_per_batch = 2
    /\ batch_size = 2
    /\ NMinibatches(Len(dataset.train_indices), 4, FALSE) >= 1
    /\ NMinibatches(Len(dataset.val_indices), 4, FALSE) >= 1
    /\ dataset.cycle_indices[1] # dataset.cycle_indices[2]

\* C17: the global index sequence has final_len*W elements; the split point is
\* floor(f*final_len*W) rounded down to a multiple of batch_size*W; both
\* partitions are whole numbers of minibatches, so with partial minibatches
\* disabled neither pipeline drops an index.
C17_SplitAligned ==
    (LSTM /\ dataset.cycle_indices # <<>>) =>
        LET u == batch_size * envs_per_batch
            total == dataset.final_stack_len * envs_per_batch
            raw == (train_fraction.num * total) \div train_fraction.den
            nt == Len(dataset.train_indices)
            nv == Len(dataset.val_indices)
        IN /\ Len(dataset.indices) = total
           /\ total % u = 0
           /\ dataset.split_point = (raw \div u) * u
           /\ nt = dataset.split_point
           /\ nt + nv = total
           /\ nt % u = 0 /\ nv % u = 0
           /\ NMinibatches(nt, u, FALSE) * u = nt
           /\ NMinibatches(nv, u, FALSE) * u = nv

C17_Witness ==
    /\ LSTM
    /\ dataset.status = "built"
    /\ envs_per_batch = 2
    /\ batch_size = 2
    /\ (train_fraction.num * dataset.final_stack_len * 2) \div train_fraction.den
          # dataset.split_point


\* ------------------------------------------------ claims: background pipeline
\* the number of put calls the workers of a loader have completed
Produced(id) == SeqSum([w \in 1..Len(workers[id]) |-> workers[id][w].puts])

\* the number of items the consumer has taken from the queue of a loader
Received(id) ==
    Cardinality({i \in 1..Len(delivered[id]) :
                    delivered[id][i].kind \in {"batch", "StopIteration"}})

\* C11: the queue never holds more than max_queue_len items (minibatches and
\* sentinels), and the items produced never exceed the items received by more
\* than max_queue_len.
C11_Backpressure ==
    \A id \in {i \in DOMAIN dl : ~dl[i].sequential} :
        /\ Len(queue[id]) <= dl[id].max_queue_len
        /\ Produced(id) >= Received(id)
        /\ Produced(id) - Received(id) <= dl[id].max_queue_len

C11_Witness ==
    \E id \in DOMAIN dl :
        /\ dl[id].max_queue_len = 2
        /\ Len(queue[id]) = 2
        /\ queue[id][2].kind = "None"
        /\ Received(id) >= 2
        /\ workers[id][1].pc = "run"

\* the epoch orders a worker may scan: the index sequence, reshuffled or not
EpochOrders(d) == IF d.shuffle THEN Shuffles(d.original_indices) ELSE {d.original_indices}

\* C12: with a single worker the stream received is, epoch after epoch, the
\* n_minibatches minibatches of that epoch's order in scan order followed by
\* one sentinel: nothing lost, duplicated, reordered or taken from the next
\* epoch before the sentinel.
C12_EpochStream ==
    \A id \in {i \in DOMAIN dl : ~dl[i].sequential /\ Len(workers[i]) = 1} :
        LET h == delivered[id]
            d == dl[id]
            n == Len(d.original_indices)
            count == IF d.partial_minibatch THEN CeilDiv(n, d.batch_size)
                     ELSE n \div d.batch_size
            starts == {1} \cup {i + 1 : i \in {j \in 1..Len(h) : h[j].kind = "StopIteration"}}
            EpochEnd(a) == IF \E j \in a..Len(h) : h[j].kind = "StopIteration"
                           THEN CHOOSE j \in a..Len(h) :
                                   /\ h[j].kind = "StopIteration"
                                   /\ \A j2 \in a..(j - 1) : h[j2].kind # "StopIteration"
                           ELSE Len(h) + 1
        IN \A a \in starts :
              /\ EpochEnd(a) - a <= count
              /\ EpochEnd(a) <= Len(h) => EpochEnd(a) - a = count
              /\ \E order \in EpochOrders(d) :
                    \A i \in a..(EpochEnd(a) - 1) :
                        /\ h[i].kind = "batch"
                        /\ h[i].actions =
                              PySlice(order, (i - a) * d.batch_size,
                                      (i - a + 1) * d.batch_size)

C12_Witness ==
    \E id \in DOMAIN dl :
        /\ dl[id].shuffle
        /\ dl[id].n_minibatches = 2
        /\ Len(delivered[id]) = 5
        /\ delivered[id][3].kind = "StopIteration"
        /\ delivered[id][5].kind = "batch"
        /\ delivered[id][1] # delivered[id][4]

\* C18: a loader has at most one live worker feeding its queue, whatever
\* start_process calls and pulls were made; a sequential loader has none.
C18_SingleWorker ==
    \A id \in DOMAIN dl :
        /\ Cardinality({w \in 1..Len(workers[id]) : workers[id][w].pc = "run"}) <= 1
        /\ dl[id].sequential => workers[id] = <<>>


\* C19: with infinite_loop set a pull that is under way on a started pipeline
\* eventually returns (a minibatch or the end-of-epoch signal), whatever
\* max_queue_len; with infinite_loop cleared the worker puts one epoch and one
\* sentinel and stops, and no pull returns once that sentinel was consumed.
C19_PullReturns ==
    /\ (dl["bg"].infinite_loop /\ caller["bg"] = "next") ~> (caller["bg"] = "idle")
    /\ [](~dl["bg"].infinite_loop =>
             /\ Produced("bg") <= dl["bg"].n_minibatches + 1
             /\ workers["bg"][1].pc = "done" <=>
                   Produced("bg") = dl["bg"].n_minibatches + 1)
    /\ [][(/\ ~dl["bg"].infinite_loop
           /\ \E i \in 1..Len(delivered["bg"]) :
                 delivered["bg"][i].kind = "StopIteration")
             => /\ delivered' = delivered
                /\ caller["bg"] = "next" => caller'["bg"] = "next"]_vars

C19_Witness ==
    /\ dl["bg"].infinite_loop
    /\ dl["bg"].max_queue_len = 2
    /\ caller["bg"] = "next"
    /\ queue["bg"] = <<>>
    /\ \E i \in 1..Len(delivered["bg"]) : delivered["bg"][i].kind = "StopIteration"


\* ------------------------------------------------ claims: shuffled partitions
\* the partition a facade pipeline was built over
PartitionOf(id) ==
    IF id = "train" THEN dataset.train_indices ELSE dataset.val_indices

\* the index sequences a pipeline holds: the loader's and its worker's copies
HeldSequences(id) ==
    <<dl[id].indices>> \o [w \in 1..Len(workers[id]) |-> workers[id][w].indices]

====
